---- MODULE Spec2Model ----
(***************************************************************************)
(* AxisModel (src/js/models/axisModel.js): the value-axis tick-scale       *)
(* computation of tui.chart.                                               *)
(*                                                                         *)
(* Numbers.  A JavaScript number is a record [k, v]:                       *)
(*   k = "fin"   a finite decimal, v = the value times UNIT (fixed point), *)
(*   k = "nan"   NaN,   k = "inf" / "ninf"   +Infinity / -Infinity,        *)
(*   k = "undef" the value undefined (ToNumber(undefined) is NaN).         *)
(* Finite arithmetic is exact decimal arithmetic: the binary rounding of   *)
(* IEEE doubles is outside the model.  The ne.util helpers that multiply   *)
(* both operands by a power of ten, operate, and divide back               *)
(* (addition, subtraction, mod, division) are therefore the exact          *)
(* operation.                                                              *)
(***************************************************************************)
EXTENDS Integers, Sequences, FiniteSets

\* Fixed-point resolution: three decimal places.
UNIT == 10 * 10 * 10

Fin(v) == [k |-> "fin", v |-> v]
Int2Num(n) == Fin(n * UNIT)
NaN == [k |-> "nan", v |-> 0]
PosInf == [k |-> "inf", v |-> 0]
NegInf == [k |-> "ninf", v |-> 0]
Undefined == [k |-> "undef", v |-> 0]

IsFin(a) == a.k = "fin"
IsNaN(a) == a.k \in {"nan", "undef"}
isUndefined(a) == a.k = "undef"

\* JavaScript truthiness of a number or undefined: 0, NaN and undefined are falsy.
Truthy(a) == ~IsNaN(a) /\ ~(IsFin(a) /\ a.v = 0)

\* a || b
OrElse(a, b) == IF Truthy(a) THEN a ELSE b

AbsInt(n) == IF n < 0 THEN -n ELSE n

\* Position of a number on the extended real line, for comparisons.
Rank(a) == CASE a.k = "ninf" -> 0 [] a.k = "fin" -> 1 [] OTHER -> 2

\* a < b, a <= b, a > b, a >= b, a === b: every comparison with NaN is false.
fLt(a, b) ==
    /\ ~IsNaN(a) /\ ~IsNaN(b)
    /\ \/ Rank(a) < Rank(b)
       \/ IsFin(a) /\ IsFin(b) /\ a.v < b.v

fEq(a, b) == ~IsNaN(a) /\ ~IsNaN(b) /\ a.k = b.k /\ a.v = b.v

fLe(a, b) == fLt(a, b) \/ fEq(a, b)
fGt(a, b) == fLt(b, a)
fGe(a, b) == fLe(b, a)

fNeg(a) ==
    CASE IsFin(a) -> Fin(-a.v)
      [] a.k = "inf" -> NegInf
      [] a.k = "ninf" -> PosInf
      [] OTHER -> NaN

fAbs(a) == IF IsFin(a) THEN Fin(AbsInt(a.v)) ELSE IF IsNaN(a) THEN NaN ELSE PosInf

fAdd(a, b) ==
    CASE IsNaN(a) \/ IsNaN(b) -> NaN
      [] IsFin(a) /\ IsFin(b) -> Fin(a.v + b.v)
      [] IsFin(a) -> b
      [] IsFin(b) -> a
      [] a.k = b.k -> a
      [] OTHER -> NaN

fSub(a, b) == fAdd(a, fNeg(b))

\* a * n for an integer n (Infinity * 0 is NaN).
fMulInt(a, n) ==
    CASE IsNaN(a) -> NaN
      [] IsFin(a) -> Fin(a.v * n)
      [] n = 0 -> NaN
      [] n > 0 -> a
      [] OTHER -> fNeg(a)

\* a / n for an integer n > 0 that divides a exactly at the model's resolution.
fDivInt(a, n) ==
    CASE IsNaN(a) -> NaN
      [] IsFin(a) -> Fin(CHOOSE q \in {a.v \div n} : q * n = a.v)
      [] OTHER -> a

\* a % b: NaN for an infinite a or a zero b, a for an infinite b, and otherwise
\* the remainder of the truncated division, with the sign of a.
fMod(a, b) ==
    CASE IsNaN(a) \/ IsNaN(b) \/ ~IsFin(a) -> NaN
      [] ~IsFin(b) -> a
      [] b.v = 0 -> NaN
      [] a.v >= 0 -> Fin(a.v % AbsInt(b.v))
      [] OTHER -> Fin(-((-a.v) % AbsInt(b.v)))

\* ne.util.underPointLength: the number of digits after the decimal point of
\* the number's string form ("NaN" and "Infinity" have none).
underPointLength(a) ==
    IF ~IsFin(a) THEN 0
    ELSE CHOOSE n \in 0..3 :
            /\ (a.v * 10^n) % UNIT = 0
            /\ \A m \in 0..(n - 1) : (a.v * 10^m) % UNIT # 0

SeqMaxInt(s) == CHOOSE x \in {s[i] : i \in 1..Len(s)} : \A j \in 1..Len(s) : s[j] <= x

\* ne.util.findMultipleNum: ten to the largest underPointLength of the arguments.
findMultipleNum(args) == 10^SeqMaxInt([i \in 1..Len(args) |-> underPointLength(args[i])])

\* ne.util.mod, ne.util.addition, ne.util.subtraction, ne.util.division.
mod(target, modNum) == fMod(target, modNum)
addition(a, b) == fAdd(a, b)
subtraction(a, b) == fSub(a, b)
division(a, n) == fDivInt(a, n)

\* ne.util.min / ne.util.max of an array: the first element that no later
\* element undercuts / exceeds; undefined for the empty array.
RECURSIVE ArrMin(_, _, _)
ArrMin(arr, i, best) ==
    IF i > Len(arr) THEN best
    ELSE ArrMin(arr, i + 1, IF fGt(best, arr[i]) THEN arr[i] ELSE best)

RECURSIVE ArrMax(_, _, _)
ArrMax(arr, i, best) ==
    IF i > Len(arr) THEN best
    ELSE ArrMax(arr, i + 1, IF fLt(best, arr[i]) THEN arr[i] ELSE best)

utilMin(arr) == IF Len(arr) = 0 THEN Undefined ELSE ArrMin(arr, 2, arr[1])
utilMax(arr) == IF Len(arr) = 0 THEN Undefined ELSE ArrMax(arr, 2, arr[1])

\* ne.util.range(start, stop) over integers.
range(start, stop) == [i \in 1..(IF stop > start THEN stop - start ELSE 0) |-> start + i - 1]

\* parseInt(a / b, 10) for integers a and b > 0: the quotient truncated toward zero.
parseIntDiv(a, b) == IF a >= 0 THEN a \div b ELSE -((-a) \div b)


(***************************************************************************)
(* Steps.  The raw step (scale.max - scale.min) / (tickCount - 1) is kept  *)
(* as the exact quotient [n, d] of a number n by an integer d, so that     *)
(* _normalizeStep decides its comparisons and its rounding exactly.        *)
(***************************************************************************)
Quot(n, d) == [n |-> n, d |-> d]

\* Model#getScaleStep(scale, count): (scale.max - scale.min) / (count - 1).
getScaleStep(scale, count) == Quot(fSub(scale.max, scale.min), count - 1)

\* The quotient as a number n with a divisor d > 0; n is NaN or infinite for
\* 0/0, x/0 and an infinite numerator.
QNorm(q) ==
    CASE IsNaN(q.n) -> Quot(NaN, 1)
      [] q.d = 0 /\ IsFin(q.n) ->
            Quot(IF q.n.v = 0 THEN NaN ELSE IF q.n.v > 0 THEN PosInf ELSE NegInf, 1)
      [] q.d = 0 -> Quot(q.n, 1)
      [] q.d < 0 -> Quot(fNeg(q.n), IF IsFin(q.n) THEN -q.d ELSE 1)
      [] OTHER -> Quot(q.n, IF IsFin(q.n) THEN q.d ELSE 1)

\* step === 0
QIsZero(q) == LET c == QNorm(q) IN IsFin(c.n) /\ c.n.v = 0

\* step < num for an integer num: false for NaN.
QLess(q, num) ==
    LET c == QNorm(q)
    IN  \/ c.n.k = "ninf"
        \/ IsFin(c.n) /\ c.n.v < num * c.d * UNIT

QIsNegative(q) == QLess(q, 0)

\* The forEachArray over [1, 2, 5, 10] of _normalizeStep: the first num with
\* step < num when that num is above 1, 10 when no num exceeds the step, and 0
\* (the initial value) when step < 1.
Standard(step) ==
    CASE QLess(step, 1) -> 0
      [] QLess(step, 2) -> 2
      [] QLess(step, 5) -> 5
      [] OTHER -> 10

\* addition(step, mod > 0 ? standard - mod : 0) with mod = ne.util.mod(step, standard):
\* the step rounded up to a multiple of standard; NaN and Infinity pass through
\* (their mod is NaN, so 0 is added).
RoundUpTo(step, standard) ==
    LET c == QNorm(step)
        unit == c.d * UNIT * standard
    IN  IF ~IsFin(c.n) THEN c.n
        ELSE IF c.n.v % unit = 0 THEN Fin((c.n.v \div unit) * standard * UNIT)
        ELSE Fin(((c.n.v \div unit) + 1) * standard * UNIT)

\* _normalizeStep recurses on step * 10 while step < 1: a negative step never
\* reaches a standard and the recursion ends in a RangeError (stack overflow).
_normalizeStepRaises(step) == QIsNegative(step)

RECURSIVE _normalizeStep(_)
_normalizeStep(step) ==
    IF QIsZero(step) THEN Fin(0)
    ELSE IF Standard(step) < 1
         THEN fDivInt(_normalizeStep(Quot(fMulInt(step.n, 10), step.d)), 10)
         ELSE RoundUpTo(step, Standard(step))

_normalizeMin(min, step) ==
    LET m == mod(min, step)
    IN  IF fEq(m, Fin(0)) THEN min
        ELSE subtraction(min, IF fGe(min, Fin(0)) THEN m ELSE fAdd(step, m))

\* _calculateScale(min, max): [min, max] padded by a twentieth of the range.
_calculateScale(min0, max0) ==
    LET neg == fLt(min0, Fin(0))
        saveMin == IF neg THEN min0 ELSE Fin(0)
        max == IF neg THEN fSub(max0, min0) ELSE max0
        min == IF neg THEN Fin(0) ELSE min0
        iodValue == fDivInt(fSub(max, min), 20)
    IN  [max |-> fAdd(fAdd(max, iodValue), saveMin),
         min |-> IF fLt(fMulInt(min, 6), max)
                 THEN fAdd(Fin(0), saveMin)
                 ELSE fAdd(fSub(min, iodValue), saveMin)]

\* ne.util.range(start, stop, step) over numbers: step || 1, then the values
\* start, start + step, ... while start * flag < stop * flag.
RECURSIVE RangeFrom(_, _, _, _)
RangeFrom(start, stop, step, flag) ==
    IF fLt(fMulInt(start, flag), stop)
    THEN <<start>> \o RangeFrom(fAdd(start, step), stop, step, flag)
    ELSE <<>>

rangeNum(start, stop, step0) ==
    LET step == OrElse(step0, Int2Num(1))
        flag == IF fLt(step, Fin(0)) THEN -1 ELSE 1
    IN  RangeFrom(start, fMulInt(stop, flag), step, flag)

_makeLabelsFromScale(scale, step) ==
    LET multipleNum == findMultipleNum(<<step>>)
        min == fMulInt(scale.min, multipleNum)
        max == fMulInt(scale.max, multipleNum)
        labels == rangeNum(min, fAdd(max, Int2Num(1)), fMulInt(step, multipleNum))
    IN  [i \in 1..Len(labels) |-> fDivInt(labels[i], multipleNum)]


(***************************************************************************)
(* Tick infos.  A TickInfo is [scale |-> [min, max], step, tickCount,      *)
(* labels]; options is [min, max, tickCount] with Undefined for an absent  *)
(* bound and <<>> for an absent tick count (<<n>> when present).           *)
(***************************************************************************)

\* The forEachArray of _minimizeTickScale from tickIndex on: it ends at the
\* first tick where the data already reaches both current bounds (return false).
RECURSIVE MinimizeFrom(_, _, _, _, _, _, _, _)
MinimizeFrom(tickIndex, last, userMin, userMax, step, tickMin, tickMax, st) ==
    IF tickIndex > last THEN st.scale
    ELSE
      LET scale == st.scale
          options == st.options
          curStep == fMulInt(step, tickIndex)
          curMin == fAdd(tickMin, curStep)
          curMax == fSub(tickMax, curStep)
          isUndefinedMin == isUndefined(options.min)
          isUndefinedMax == isUndefined(options.max)
          newMin == IF \/ isUndefinedMin /\ fGt(userMin, curMin)
                       \/ ~isUndefinedMin /\ fGe(options.min, curMin)
                    THEN curMin ELSE scale.min
          newMax == IF \/ isUndefinedMin /\ fLt(userMax, curMax)
                       \/ ~isUndefinedMax /\ fLe(options.max, curMax)
                    THEN curMax ELSE scale.max
      IN  IF fLe(userMin, curMin) /\ fGe(userMax, curMax) THEN scale
          ELSE MinimizeFrom(tickIndex + 1, last, userMin, userMax, step, tickMin, tickMax,
                            [scale |-> [min |-> newMin, max |-> newMax],
                             options |-> options])

\* _minimizeTickScale without line 398 (tickInfo.tickCount = labels.length).
MinimizeKeepsTickCount(userMin, userMax, tickInfo, options) ==
    LET step == tickInfo.step
        scale == MinimizeFrom(1, tickInfo.tickCount - 1, userMin, userMax, step,
                              tickInfo.scale.min, tickInfo.scale.max,
                              [scale |-> tickInfo.scale, options |-> options])
    IN  [scale |-> scale, step |-> step, tickCount |-> tickInfo.tickCount,
         labels |-> _makeLabelsFromScale(scale, step)]

_minimizeTickScale(userMin, userMax, tickInfo, options) ==
    LET step == tickInfo.step
        scale == MinimizeFrom(1, tickInfo.tickCount - 1, userMin, userMax, step,
                              tickInfo.scale.min, tickInfo.scale.max,
                              [scale |-> tickInfo.scale, options |-> options])
        labels == _makeLabelsFromScale(scale, step)
    IN  [scale |-> scale, step |-> step, tickCount |-> Len(labels), labels |-> labels]

_divideTickStep(tickInfo, orgTickCount) ==
    LET step == tickInfo.step
        tickCount == tickInfo.tickCount
        half == fDivInt(step, 2)
        labels == _makeLabelsFromScale(tickInfo.scale, half)
    IN  IF /\ fEq(fMod(step, Int2Num(2)), Fin(0))
           /\ tickCount % 2 # 0
           /\ AbsInt(orgTickCount - (tickCount * 2)) < AbsInt(orgTickCount - tickCount)
        THEN [scale |-> tickInfo.scale, step |-> half,
              tickCount |-> Len(labels), labels |-> labels]
        ELSE tickInfo

\* The scale of _makeTickInfo after the overrides (lines 436-448), and its raw step.
ScaleWithOptions(min, max, isMinus, options) ==
    LET scale == _calculateScale(min, max)
        mirrored == IF isMinus
                    THEN [min |-> fNeg(scale.max), max |-> fNeg(scale.min)]
                    ELSE scale
    IN  [min |-> OrElse(options.min, mirrored.min),
         max |-> OrElse(options.max, mirrored.max)]

\* _makeTickInfo raises when _normalizeStep does.
_makeTickInfoRaises(tickCount, min, max, isMinus, options) ==
    _normalizeStepRaises(getScaleStep(ScaleWithOptions(min, max, isMinus, options), tickCount))

\* scale.max += step * (modDiff > 0 ? divideDiff + 1 : divideDiff) when
\* diffMax = orgScaleMax - scale.max > 0 (lines 458-463); diffMax > 0 only for a
\* finite scale and a finite step above 0.
ExtendMax(scaleMax, orgScaleMax, step) ==
    LET diffMax == fSub(orgScaleMax, scaleMax)
    IN  IF ~fGt(diffMax, Fin(0)) THEN scaleMax
        ELSE IF ~(IsFin(diffMax) /\ IsFin(step) /\ step.v > 0) THEN NaN
        ELSE fAdd(scaleMax,
                  fMulInt(step, IF diffMax.v % step.v > 0
                                THEN (diffMax.v \div step.v) + 1
                                ELSE diffMax.v \div step.v))

\* Lines 454-463: scale.min floored to a multiple of step, scale.max at
\* tickCount - 1 steps above it,
\*   ((scale.min * multipleNum) + (step * multipleNum * (tickCount - 1))) / multipleNum,
\* and extended to cover the padded maximum.
AlignedAt(scaleMin, orgScaleMax, step, tickCount) ==
    [min |-> scaleMin,
     max |-> ExtendMax(fAdd(scaleMin, fMulInt(step, tickCount - 1)), orgScaleMax, step)]

AlignScale(scale, step, tickCount) ==
    AlignedAt(_normalizeMin(scale.min, step), scale.max, step, tickCount)

\* Lines 465-472: a bound that sits on the data's own bound moves one step out.
AvoidDataBounds(scale, step, userMin, userMax, options, isLineChart) ==
    [max |-> IF isUndefined(options.max) /\ fEq(scale.max, userMax)
             THEN fAdd(scale.max, step) ELSE scale.max,
     min |-> IF /\ isLineChart \/ fGt(userMin, Fin(0))
                /\ isUndefined(options.min)
                /\ fEq(scale.min, userMin)
             THEN fSub(scale.min, step) ELSE scale.min]

PaddedWithStep(scale, step, tickCount, userMin, userMax, options, isLineChart) ==
    [scale |-> AvoidDataBounds(AlignScale(scale, step, tickCount), step,
                               userMin, userMax, options, isLineChart),
     step |-> step, tickCount |-> tickCount, labels |-> <<>>]

PaddedFrom(scale, tickCount, userMin, userMax, options, isLineChart) ==
    PaddedWithStep(scale, _normalizeStep(getScaleStep(scale, tickCount)), tickCount,
                   userMin, userMax, options, isLineChart)

\* The tickInfo of _makeTickInfo before tightening (lines 436-474).
PaddedScale(tickCount, min, max, userMin, userMax, isMinus, options, isLineChart) ==
    PaddedFrom(ScaleWithOptions(min, max, isMinus, options), tickCount,
               userMin, userMax, options, isLineChart)

_makeTickInfo(tickCount, min, max, userMin, userMax, isMinus, options, isLineChart) ==
    _divideTickStep(
        _minimizeTickScale(userMin, userMax,
            PaddedScale(tickCount, min, max, userMin, userMax, isMinus, options, isLineChart),
            options),
        tickCount)

\* _getTickInfoCandidates: the data range mirrored when it is all negative.
CandidateArgs(min, max) ==
    IF fLt(min, Fin(0)) /\ fLe(max, Fin(0))
    THEN [isMinus |-> TRUE, min |-> fNeg(max), max |-> fNeg(min)]
    ELSE [isMinus |-> FALSE, min |-> min, max |-> max]

_getTickInfoCandidatesRaises(min, max, tickCounts, options) ==
    LET a == CandidateArgs(min, max)
    IN  \E i \in 1..Len(tickCounts) :
            _makeTickInfoRaises(tickCounts[i], a.min, a.max, a.isMinus, options)

_getTickInfoCandidates(min, max, tickCounts, options, isLineChart) ==
    LET a == CandidateArgs(min, max)
    IN  [i \in 1..Len(tickCounts) |->
            _makeTickInfo(tickCounts[i], a.min, a.max, min, max, a.isMinus, options,
                          isLineChart)]


DEFAULT_TICK_COUNT == 5
MIN_PIXEL_STEP_SIZE == 40
MAX_PIXEL_STEP_SIZE == 60
CHART_TITLE_HEIGHT == 80
VERTICAL_AXIS_WIDTH == 90
LEGEND_WIDTH == 90

_getBaseSize(vertical, dimension) ==
    IF vertical
    THEN dimension.height - CHART_TITLE_HEIGHT
    ELSE dimension.width - VERTICAL_AXIS_WIDTH - LEGEND_WIDTH

_getCandidateTickCounts(vertical, chartDimension) ==
    LET baseSize == _getBaseSize(vertical, chartDimension)
        start == parseIntDiv(baseSize, MAX_PIXEL_STEP_SIZE)
        end == parseIntDiv(baseSize, MIN_PIXEL_STEP_SIZE) + 1
    IN  range(start, end)

_getComparingValue(scale, step, min, max) ==
    LET diffMax == fAbs(fSub(scale.max, max))
        diffMin == fAbs(fSub(min, scale.min))
        weight == 10^underPointLength(step)
    IN  fMulInt(fAdd(diffMax, diffMin), weight)

\* The forEachArray of _selectTickInfo over candidates[i..]: a later candidate
\* replaces the selected one only when its comparing value is strictly smaller.
RECURSIVE SelectFrom(_, _, _, _, _, _)
SelectFrom(i, candidates, min, max, tickInfo, minValue) ==
    IF i > Len(candidates) THEN tickInfo
    ELSE
      LET info == candidates[i]
          compareValue == _getComparingValue(info.scale, info.step, min, max)
      IN  IF fGt(minValue, compareValue)
          THEN SelectFrom(i + 1, candidates, min, max, info, compareValue)
          ELSE SelectFrom(i + 1, candidates, min, max, tickInfo, minValue)

\* candidates[0] is undefined for an empty list: reading its scale is a TypeError.
_selectTickInfoRaises(candidates) == Len(candidates) = 0

\* _selectTickInfo with >= for the > of line 197: a later candidate wins a tie.
RECURSIVE SelectLatestFrom(_, _, _, _, _, _)
SelectLatestFrom(i, candidates, min, max, tickInfo, minValue) ==
    IF i > Len(candidates) THEN tickInfo
    ELSE
      LET info == candidates[i]
          compareValue == _getComparingValue(info.scale, info.step, min, max)
      IN  IF fGe(minValue, compareValue)
          THEN SelectLatestFrom(i + 1, candidates, min, max, info, compareValue)
          ELSE SelectLatestFrom(i + 1, candidates, min, max, tickInfo, minValue)

SelectLatestMinimum(min, max, candidates) ==
    SelectLatestFrom(2, candidates, min, max, candidates[1],
                     _getComparingValue(candidates[1].scale, candidates[1].step, min, max))

_selectTickInfo(min, max, candidates) ==
    SelectFrom(2, candidates, min, max, candidates[1],
               _getComparingValue(candidates[1].scale, candidates[1].step, min, max))

_makeIntegerTypeInfo(min, max, opts) ==
    IF fGe(fAbs(min), Int2Num(1)) \/ fGe(fAbs(max), Int2Num(1))
    THEN [min |-> min, max |-> max, options |-> opts, divideNum |-> 1]
    ELSE
      LET multipleNum == findMultipleNum(<<min, max>>)
      IN  [min |-> fMulInt(min, multipleNum),
           max |-> fMulInt(max, multipleNum),
           options |-> [min |-> IF Truthy(opts.min)
                                THEN fMulInt(opts.min, multipleNum) ELSE Undefined,
                        max |-> IF Truthy(opts.max)
                                THEN fMulInt(opts.max, multipleNum) ELSE Undefined,
                        tickCount |-> <<>>],
           divideNum |-> multipleNum]

_makeOriginalTypeTickInfo(info, divideNum) ==
    IF divideNum = 1 THEN info
    ELSE [scale |-> [min |-> division(info.scale.min, divideNum),
                     max |-> division(info.scale.max, divideNum)],
          step |-> division(info.step, divideNum),
          tickCount |-> info.tickCount,
          labels |-> [i \in 1..Len(info.labels) |-> division(info.labels[i], divideNum)]]

\* _formatLabels: the labels themselves without format functions; otherwise
\* each label with the functions applied in order (a symbolic application).
\* A format function is "format" (returns) or "throws" (raises).
_formatLabelsRaises(lbls, formatFunctions) ==
    /\ Len(lbls) > 0
    /\ \E i \in 1..Len(formatFunctions) : formatFunctions[i] = "throws"

_formatLabels(lbls, formatFunctions) ==
    IF Len(formatFunctions) = 0 THEN lbls
    ELSE [i \in 1..Len(lbls) |-> [label |-> lbls[i], formatted |-> formatFunctions]]


(***************************************************************************)
(* The AxisModel under construction: new AxisModel(data, options).         *)
(***************************************************************************)
VARIABLES
    options, chartType, labels, tickCount, scale, axisType, isVertical,
    data,          \* the constructor's data argument
    pc,            \* the position of the construction
    intTypeInfo, tickCounts, candidates, tickInfo,  \* the locals of _getTickInfo
    stepIn, stepOut   \* a call of _normalizeStep on its own: argument, results

vars == <<options, chartType, labels, tickCount, scale, axisType, isVertical,
          data, pc, intTypeInfo, tickCounts, candidates, tickInfo, stepIn, stepOut>>

fields == <<options, chartType, labels, tickCount, scale, axisType, isVertical>>
locals == <<intTypeInfo, tickCounts, candidates, tickInfo>>
stepVars == <<stepIn, stepOut>>

\* Bounds of the inputs.
MaxAbsValue == 5
MaxTickCountOption == 5

DataValues == {Int2Num(n) : n \in (-MaxAbsValue)..MaxAbsValue}

\* Values of magnitude below 1: -0.5, 0, 0.2, 0.25 and 0.5.
SubUnitValues ==
    {Fin(-(UNIT \div 2)), Fin(0), Fin(UNIT \div 5), Fin(UNIT \div 4), Fin(UNIT \div 2)}

\* One or two values that are all of magnitude below 1.
SubUnitLists ==
    {<<a>> : a \in SubUnitValues} \cup {<<a, b>> : a \in SubUnitValues, b \in SubUnitValues}

\* A value of magnitude below 1 next to an integer.
MixedLists == {<<a, b>> : a \in {Fin(-(UNIT \div 2)), Fin(UNIT \div 2)}, b \in DataValues}

\* The flattened values: none, one, or a pair.
ValueLists ==
    {<<>>} \cup {<<a>> : a \in DataValues}
           \cup {<<a, b>> : a \in DataValues, b \in DataValues}
           \cup SubUnitLists \cup MixedLists

Dimensions == {[width |-> 400, height |-> 150], [width |-> 100, height |-> 400]}

OptionMins == {Undefined, Int2Num(0), Int2Num(3)}
OptionMaxs == {Undefined, Int2Num(2), Int2Num(10)}
OptionTickCounts == {<<>>, <<0>>, <<MaxTickCountOption>>}

OptionsSet ==
    {[min |-> a, max |-> b, tickCount |-> c] :
        a \in OptionMins, b \in OptionMaxs, c \in OptionTickCounts}

FormatFunctionLists == {<<>>, <<"format">>, <<"throws">>}

NoData == [kind |-> "none", isVertical |-> FALSE, chartType |-> "",
           labels |-> <<>>, values |-> <<>>, chartDimension |-> [width |-> 0, height |-> 0]]

LabelData ==
    {[kind |-> "labels", isVertical |-> v, chartType |-> "column",
      labels |-> l, values |-> <<>>, chartDimension |-> [width |-> 0, height |-> 0]] :
        v \in BOOLEAN, l \in {<<>>, <<"a", "b">>}}

ValueData ==
    {[kind |-> "values", isVertical |-> v, chartType |-> t,
      labels |-> <<>>, values |-> vs, chartDimension |-> d] :
        v \in BOOLEAN, t \in {"line", "column"}, vs \in ValueLists, d \in Dimensions}

NoTickInfo == [scale |-> [min |-> Undefined, max |-> Undefined], step |-> Undefined,
               tickCount |-> 0, labels |-> <<>>]
NoIntTypeInfo == [min |-> Undefined, max |-> Undefined,
                  options |-> [min |-> Undefined, max |-> Undefined, tickCount |-> <<>>],
                  divideNum |-> 1]

\* init, lines 34-84: the fields before _setData.  scale is <<>> for null and
\* <<s>> for the scale object s.
Init ==
    /\ options \in OptionsSet
    /\ chartType = ""
    /\ labels = <<>>
    /\ tickCount = DEFAULT_TICK_COUNT
    /\ scale = <<>>
    /\ axisType = "null"
    /\ isVertical = FALSE
    /\ data \in {NoData} \cup LabelData \cup ValueData
    /\ pc = "new"
    /\ intTypeInfo = NoIntTypeInfo
    /\ tickCounts = <<>>
    /\ candidates = <<>>
    /\ tickInfo = NoTickInfo
    /\ stepIn = Quot(Fin(0), 1)
    /\ stepOut = <<>>

\* init without data (line 85).
InitNoData ==
    /\ pc = "new" /\ data.kind = "none"
    /\ pc' = "done"
    /\ UNCHANGED <<fields, data, locals, stepVars>>

\* _setData followed by _setLabelAxisData.
_setLabelAxisData ==
    /\ pc = "new" /\ data.kind = "labels"
    /\ isVertical' = data.isVertical
    /\ chartType' = data.chartType
    /\ axisType' = "label"
    /\ labels' = data.labels
    /\ tickCount' = Len(data.labels) + 1
    /\ pc' = "done"
    /\ UNCHANGED <<options, scale, data, locals, stepVars>>

\* The data range of _setValueAxisData.
userMin == utilMin(data.values)
userMax == utilMax(data.values)

\* _setData entering _setValueAxisData and _getTickInfo: _makeIntegerTypeInfo.
MakeIntegerTypeInfo ==
    /\ pc = "new" /\ data.kind = "values"
    /\ isVertical' = data.isVertical
    /\ chartType' = data.chartType
    /\ intTypeInfo' = _makeIntegerTypeInfo(userMin, userMax, options)
    /\ pc' = "tickCounts"
    /\ UNCHANGED <<options, labels, tickCount, scale, axisType, data,
                   tickCounts, candidates, tickInfo, stepVars>>

\* Line 216 with the tick-count override added to the generated candidates
\* instead of replacing them.
TickCountsWithOption(opts, vertical, chartDimension) ==
    IF opts.tickCount # <<>> /\ opts.tickCount[1] # 0
    THEN opts.tickCount \o _getCandidateTickCounts(vertical, chartDimension)
    ELSE _getCandidateTickCounts(vertical, chartDimension)

\* options.tickCount ? [options.tickCount] : this._getCandidateTickCounts(chartDimension)
TickCountsOf(opts, vertical, chartDimension) ==
    IF opts.tickCount # <<>> /\ opts.tickCount[1] # 0
    THEN opts.tickCount
    ELSE _getCandidateTickCounts(vertical, chartDimension)

GetTickCounts ==
    /\ pc = "tickCounts"
    /\ tickCounts' = TickCountsOf(options, isVertical, data.chartDimension)
    /\ pc' = "candidates"
    /\ UNCHANGED <<fields, data, intTypeInfo, candidates, tickInfo, stepVars>>

GetTickInfoCandidates ==
    /\ pc = "candidates"
    /\ IF _getTickInfoCandidatesRaises(intTypeInfo.min, intTypeInfo.max, tickCounts,
                                       intTypeInfo.options)
       THEN pc' = "raised" /\ UNCHANGED candidates
       ELSE /\ candidates' = _getTickInfoCandidates(intTypeInfo.min, intTypeInfo.max,
                                  tickCounts, intTypeInfo.options, chartType = "line")
            /\ pc' = "select"
    /\ UNCHANGED <<fields, data, intTypeInfo, tickCounts, tickInfo, stepVars>>

SelectTickInfo ==
    /\ pc = "select"
    /\ IF _selectTickInfoRaises(candidates)
       THEN pc' = "raised" /\ UNCHANGED tickInfo
       ELSE /\ tickInfo' = _selectTickInfo(intTypeInfo.min, intTypeInfo.max, candidates)
            /\ pc' = "original"
    /\ UNCHANGED <<fields, data, intTypeInfo, tickCounts, candidates, stepVars>>

MakeOriginalTypeTickInfo ==
    /\ pc = "original"
    /\ tickInfo' = _makeOriginalTypeTickInfo(tickInfo, intTypeInfo.divideNum)
    /\ pc' = "store"
    /\ UNCHANGED <<fields, data, intTypeInfo, tickCounts, candidates, stepVars>>

\* _setValueAxisData, lines 130-133, with the format functions of the data.
StoreTickInfo(formatFunctions) ==
    /\ pc = "store"
    /\ tickCount' = tickInfo.tickCount
    /\ IF _formatLabelsRaises(tickInfo.labels, formatFunctions)
       THEN /\ pc' = "raised"
            /\ UNCHANGED <<labels, scale, axisType>>
       ELSE /\ labels' = _formatLabels(tickInfo.labels, formatFunctions)
            /\ scale' = <<tickInfo.scale>>
            /\ axisType' = "value"
            /\ pc' = "done"
    /\ UNCHANGED <<options, chartType, isVertical, data, locals, stepVars>>

SetValueAxisData == \E f \in FormatFunctionLists : StoreTickInfo(f)

Next ==
    \/ InitNoData
    \/ _setLabelAxisData
    \/ MakeIntegerTypeInfo
    \/ GetTickCounts
    \/ GetTickInfoCandidates
    \/ SelectTickInfo
    \/ MakeOriginalTypeTickInfo
    \/ SetValueAxisData

Spec == Init /\ [][Next]_vars


(***************************************************************************)
(* _normalizeStep on its own: applied to a step, then to its own result.   *)
(***************************************************************************)
MaxStepTenths == 250

\* The steps 0, 0.1, 0.2, ... up to MaxStepTenths tenths.
StepInputs == {Quot(Fin(n * (UNIT \div 10)), 1) : n \in 0..MaxStepTenths}

InitStep ==
    /\ options = [min |-> Undefined, max |-> Undefined, tickCount |-> <<>>]
    /\ chartType = ""
    /\ labels = <<>>
    /\ tickCount = DEFAULT_TICK_COUNT
    /\ scale = <<>>
    /\ axisType = "null"
    /\ isVertical = FALSE
    /\ data = NoData
    /\ pc = "normalizeStep"
    /\ intTypeInfo = NoIntTypeInfo
    /\ tickCounts = <<>>
    /\ candidates = <<>>
    /\ tickInfo = NoTickInfo
    /\ stepIn \in StepInputs
    /\ stepOut = <<>>

ApplyNormalizeStep ==
    /\ pc = "normalizeStep"
    /\ Len(stepOut) < 2
    /\ stepOut' = Append(stepOut,
                         _normalizeStep(IF stepOut = <<>> THEN stepIn
                                        ELSE Quot(stepOut[Len(stepOut)], 1)))
    /\ UNCHANGED <<fields, data, pc, locals, stepIn>>

NextStep == ApplyNormalizeStep

SpecStep == InitStep /\ [][NextStep]_vars


(***************************************************************************)
(* The claims.                                                             *)
(***************************************************************************)
ValueAxis == data.kind = "values"

\* _getTickInfo has returned its tickInfo.
Returned == ValueAxis /\ pc \in {"store", "done"}

\* _getTickInfo has computed its tick counts.
TickCountsMade == ValueAxis /\ pc \notin {"new", "tickCounts"}

TickCountGiven == options.tickCount # <<>> /\ options.tickCount[1] >= 1
NoBoundOverride == isUndefined(options.min) /\ isUndefined(options.max)
NoOverride == NoBoundOverride /\ options.tickCount = <<>>

\* The inputs the interface allows: values, a positive dimension, a tick count
\* of at least 1 and bounds in order.
ValidInput ==
    /\ Len(data.values) > 0
    /\ data.chartDimension.width > 0 /\ data.chartDimension.height > 0
    /\ options.tickCount # <<>> => options.tickCount[1] >= 1
    /\ ~fGt(options.min, options.max)

ContainsData(t) == fLe(t.scale.min, userMin) /\ fGe(t.scale.max, userMax)

\* The four fields _setValueAxisData assigns are as init left them.
Untouched ==
    /\ tickCount = DEFAULT_TICK_COUNT
    /\ Len(labels) = 0
    /\ scale = <<>>
    /\ axisType = "null"

\* The candidate's tickInfo before tightening and step-halving.
PaddedOf(i) ==
    LET a == CandidateArgs(intTypeInfo.min, intTypeInfo.max)
    IN  PaddedScale(tickCounts[i], a.min, a.max, intTypeInfo.min, intTypeInfo.max,
                    a.isMinus, intTypeInfo.options, chartType = "line")

\* C1: every candidate made by _makeTickInfo (after tightening and
\* step-halving) and the tickInfo _getTickInfo returns has as many labels as
\* its tickCount says.
C1_LabelsEqualTickCount ==
    /\ \A i \in 1..Len(candidates) :
            Len(candidates[i].labels) = candidates[i].tickCount
    /\ Len(tickInfo.labels) = tickInfo.tickCount

\* C1 witness: a returned tickInfo with labels, among candidates of which one
\* was tightened away from its requested tick count and one had its step halved.
C1_Witness ==
    /\ pc = "store"
    /\ Len(tickInfo.labels) > 1
    /\ \E i \in 1..Len(candidates) :
            candidates[i].tickCount > 1 /\ candidates[i].tickCount # tickCounts[i]
    /\ \E i \in 1..Len(candidates) :
            candidates[i].tickCount > 1 /\ candidates[i].step # PaddedOf(i).step

\* C2: with neither options.min nor options.max, the tickInfo returned for
\* valid input contains the data: scale.min <= min(values) and
\* scale.max >= max(values).
C2_ContainsData ==
    (Returned /\ ValidInput /\ NoBoundOverride) => ContainsData(tickInfo)

\* Supporting C2: containment does hold when the data is not a single value
\* and every tick count is at least 2.
ContainsDataProperRange ==
    (ValueAxis /\ NoBoundOverride /\ fLt(userMin, userMax)
        /\ \A i \in 1..Len(tickCounts) : tickCounts[i] >= 2)
    => /\ \A i \in 1..Len(candidates) : ContainsData(candidates[i])
       /\ Returned => ContainsData(tickInfo)

\* C3: a supplied options.min (options.max) is the returned scale.min
\* (scale.max) exactly.
C3_OverrideExact ==
    (Returned /\ ValidInput)
    => /\ ~isUndefined(options.min) => fEq(tickInfo.scale.min, options.min)
       /\ ~isUndefined(options.max) => fEq(tickInfo.scale.max, options.max)

\* C4 as claimed: with options.tickCount the returned tickCount is options.tickCount.
C4_ReturnedTickCountIsOption ==
    (Returned /\ TickCountGiven) => tickInfo.tickCount = options.tickCount[1]

\* C4 as amended: with options.tickCount (at least 1) the tick counts are
\* exactly [options.tickCount], one candidate is made for it and that candidate
\* is the one returned; its tickCount is its number of labels.
C4_OnlyTheOptionIsTried ==
    (ValueAxis /\ TickCountGiven)
    => /\ TickCountsMade => tickCounts = options.tickCount
       /\ pc \in {"select", "original", "store", "done"} => Len(candidates) = 1
       /\ pc = "original" => tickInfo = candidates[1]
       /\ Returned => /\ tickInfo.tickCount = candidates[1].tickCount
                      /\ tickInfo.tickCount = Len(tickInfo.labels)

\* C4 witness: a tickInfo returned under options.tickCount, with another tickCount.
C4_Witness ==
    /\ pc = "store" /\ TickCountGiven /\ ValidInput
    /\ tickInfo.tickCount > 1
    /\ tickInfo.tickCount # options.tickCount[1]

\* C5: _normalizeStep(_normalizeStep(x)) = _normalizeStep(x) for every step x >= 0.
C5_NormalizeStepIdempotent ==
    Len(stepOut) = 2 => stepOut[2] = stepOut[1]

\* The usable length fits no tick count n >= 1 with 40 <= length / n <= 60.
BandEmpty ==
    LET baseSize == _getBaseSize(data.isVertical, data.chartDimension)
    IN  ~\E n \in 1..(IF baseSize > 0 THEN baseSize ELSE 0) :
            MIN_PIXEL_STEP_SIZE * n <= baseSize /\ baseSize <= MAX_PIXEL_STEP_SIZE * n

\* C6: for a dimension with width > 0 and height > 0 the generated tick counts
\* are not empty, and they are exactly [1] when no tick count fits the band.
C6_CandidateTickCounts ==
    (TickCountsMade /\ ~(options.tickCount # <<>> /\ options.tickCount[1] # 0)
        /\ data.chartDimension.width > 0 /\ data.chartDimension.height > 0)
    => /\ Len(tickCounts) > 0
       /\ BandEmpty => tickCounts = <<1>>

\* C7: for empty values, a non-positive dimension, options.tickCount < 1 or
\* options.min > options.max, no tickInfo is returned and none is stored.
C7_InvalidInputRaises ==
    (ValueAxis /\ ~ValidInput) => ~Returned /\ Untouched

\* C8: the returned step is >= 0, it is 0 only when min(values) = max(values),
\* and then the axis has exactly one label.
C8_StepAndSingleValue ==
    (Returned /\ ValidInput)
    => /\ fGe(tickInfo.step, Fin(0))
       /\ fEq(tickInfo.step, Fin(0)) => fEq(userMin, userMax)
       /\ fEq(userMin, userMax) => Len(tickInfo.labels) = 1

\* C9: a value-axis computation ends either with tickCount, labels, scale and
\* axisType all set from the selected tickInfo, or in an error with none of
\* the four changed.
C9_AllOrNothing ==
    ValueAxis
    => /\ pc = "done" => /\ tickCount = tickInfo.tickCount
                         /\ Len(labels) = Len(tickInfo.labels)
                         /\ scale = <<tickInfo.scale>>
                         /\ axisType = "value"
       /\ pc # "done" => Untouched

NegativeRangeOk(t) ==
    /\ fLe(t.scale.max, Fin(0))
    /\ fLe(t.scale.min, t.scale.max)
    /\ ContainsData(t)

\* C10: for all-negative data and no overrides, every candidate and the
\* returned tickInfo have scale.max <= 0, scale.min <= scale.max, and contain
\* the data.
C10_NegativeRange ==
    (ValueAxis /\ ValidInput /\ NoOverride
        /\ fLt(userMin, Fin(0)) /\ fLt(userMax, Fin(0)))
    => /\ \A i \in 1..Len(candidates) : NegativeRangeOk(candidates[i])
       /\ Returned => NegativeRangeOk(tickInfo)

\* Supporting C10: the property does hold when the data is not a single value
\* and every tick count is at least 2.
NegativeRangeProperRange ==
    (ValueAxis /\ NoOverride /\ fLt(userMin, userMax) /\ fLt(userMax, Fin(0))
        /\ \A i \in 1..Len(tickCounts) : tickCounts[i] >= 2)
    => /\ \A i \in 1..Len(candidates) : NegativeRangeOk(candidates[i])
       /\ Returned => NegativeRangeOk(tickInfo)

\* min(values) or max(values) has magnitude at least 1 / both are below 1.
UnitMagnitude == fGe(fAbs(userMin), Int2Num(1)) \/ fGe(fAbs(userMax), Int2Num(1))
SubUnit == Len(data.values) > 0 /\ ~UnitMagnitude

\* _makeIntegerTypeInfo has returned.
IntegerTypeMade == ValueAxis /\ pc # "new"

\* The options with every supplied bound multiplied by m.
ScaledOptions(opts, m) ==
    [min |-> IF isUndefined(opts.min) THEN Undefined ELSE fMulInt(opts.min, m),
     max |-> IF isUndefined(opts.max) THEN Undefined ELSE fMulInt(opts.max, m),
     tickCount |-> opts.tickCount]

\* A tickInfo with step, scale and labels multiplied by m.
Times(t, m) ==
    [scale |-> [min |-> fMulInt(t.scale.min, m), max |-> fMulInt(t.scale.max, m)],
     step |-> fMulInt(t.step, m),
     tickCount |-> t.tickCount,
     labels |-> [i \in 1..Len(t.labels) |-> fMulInt(t.labels[i], m)]]

\* The selection made on the data and the supplied overrides, all multiplied
\* by the divideNum of intTypeInfo.
ScaledPipelineRaises ==
    _getTickInfoCandidatesRaises(fMulInt(userMin, intTypeInfo.divideNum),
                                 fMulInt(userMax, intTypeInfo.divideNum), tickCounts,
                                 ScaledOptions(options, intTypeInfo.divideNum))

ScaledPipeline ==
    _selectTickInfo(fMulInt(userMin, intTypeInfo.divideNum),
                    fMulInt(userMax, intTypeInfo.divideNum),
                    _getTickInfoCandidates(fMulInt(userMin, intTypeInfo.divideNum),
                                           fMulInt(userMax, intTypeInfo.divideNum),
                                           tickCounts,
                                           ScaledOptions(options, intTypeInfo.divideNum),
                                           chartType = "line"))

PowersOfTen == {10^n : n \in 0..3}

\* C11: with |min| >= 1 or |max| >= 1 the multiplier is 1 and the selected
\* tickInfo is returned unchanged; with both below 1 the multiplier M is a
\* power of ten, min*M and max*M have magnitude >= 1, and the returned step,
\* scale and labels are those of the pipeline run on the M-scaled data and
\* overrides, divided by M.
C11_MagnitudeNormalization ==
    /\ (IntegerTypeMade /\ UnitMagnitude)
       => /\ intTypeInfo.divideNum = 1
          /\ Returned => tickInfo = _selectTickInfo(userMin, userMax, candidates)
    /\ (IntegerTypeMade /\ SubUnit)
       => /\ intTypeInfo.divideNum \in PowersOfTen
          /\ fGe(fAbs(fMulInt(userMin, intTypeInfo.divideNum)), Int2Num(1))
          /\ fGe(fAbs(fMulInt(userMax, intTypeInfo.divideNum)), Int2Num(1))
    /\ (Returned /\ SubUnit /\ ValidInput /\ ~ScaledPipelineRaises)
       => Times(tickInfo, intTypeInfo.divideNum) = ScaledPipeline

\* Supporting C11: the multiplier is a power of ten that makes min and max
\* integers, and what is returned is the selected candidate divided by it.
MagnitudeRoundTrip ==
    /\ (IntegerTypeMade /\ UnitMagnitude)
       => /\ intTypeInfo.divideNum = 1
          /\ Returned => tickInfo = _selectTickInfo(userMin, userMax, candidates)
    /\ (IntegerTypeMade /\ SubUnit)
       => /\ intTypeInfo.divideNum \in PowersOfTen
          /\ intTypeInfo.min = fMulInt(userMin, intTypeInfo.divideNum)
          /\ intTypeInfo.max = fMulInt(userMax, intTypeInfo.divideNum)
          /\ intTypeInfo.min.v % UNIT = 0 /\ intTypeInfo.max.v % UNIT = 0
    /\ (Returned /\ SubUnit)
       => Times(tickInfo, intTypeInfo.divideNum)
            = _selectTickInfo(intTypeInfo.min, intTypeInfo.max, candidates)

\* The values d * 10^k with d in {1, 2, 5, 10}, from 0.1 to 500, in the
\* model's fixed-point unit.
Ladder == {d * (UNIT \div 10) * 10^k : d \in {1, 2, 5}, k \in 0..3}

\* The smallest ladder value that is >= v.
LadderCeil(v) == CHOOSE l \in Ladder : l >= v /\ \A m \in Ladder : m >= v => l <= m

\* C12: for a positive raw step s, _normalizeStep(s) is the smallest
\* d * 10^k with d in {1, 2, 5, 10} that is >= s, and _normalizeStep(0) is 0.
C12_NormalizeStepLadder ==
    Len(stepOut) >= 1
    => stepOut[1] = IF stepIn.n.v = 0 THEN Fin(0) ELSE Fin(LadderCeil(stepIn.n.v))

\* Supporting C12: the property does hold for 0 and for every step below 10
\* that is not itself a ladder value.
NormalizeStepBelowTen ==
    (Len(stepOut) >= 1 /\ stepIn.n.v < 10 * UNIT /\ stepIn.n.v \notin Ladder)
    => stepOut[1] = IF stepIn.n.v = 0 THEN Fin(0) ELSE Fin(LadderCeil(stepIn.n.v))

\* Supporting C12: a step of 10 or more is rounded up to a multiple of 10.
NormalizeStepFromTen ==
    (Len(stepOut) >= 1 /\ stepIn.n.v >= 10 * UNIT)
    => /\ stepOut[1].v % (10 * UNIT) = 0
       /\ stepOut[1].v >= stepIn.n.v
       /\ stepOut[1].v < stepIn.n.v + 10 * UNIT

\* The usable pixel length: height - 80 for a vertical axis, width - 180 for
\* a horizontal one.
UsableLength == _getBaseSize(data.isVertical, data.chartDimension)

\* C13: without a tickCount override every candidate tick count n satisfies
\* 40 <= usableLength / n <= 60.
C13_CandidatesInBand ==
    (TickCountsMade /\ options.tickCount = <<>>)
    => \A i \in 1..Len(tickCounts) :
            /\ tickCounts[i] >= 1
            /\ MIN_PIXEL_STEP_SIZE * tickCounts[i] <= UsableLength
            /\ UsableLength <= MAX_PIXEL_STEP_SIZE * tickCounts[i]

\* Supporting C13: the candidates are the integers from the truncated
\* usableLength / 60 to the truncated usableLength / 40, so the lower bound
\* of the band holds and the upper bound holds only for n + 1.
CandidatesInTruncatedBand ==
    (TickCountsMade /\ options.tickCount = <<>> /\ UsableLength >= 0)
    => \A i \in 1..Len(tickCounts) :
            /\ MIN_PIXEL_STEP_SIZE * tickCounts[i] <= UsableLength
            /\ UsableLength < MAX_PIXEL_STEP_SIZE * (tickCounts[i] + 1)

\* (|scale.max - dataMax| + |dataMin - scale.min|) * 10^decimalPlaces(step)
\* of candidate j, on the data _selectTickInfo is given.
Score(j) ==
    fMulInt(fAdd(fAbs(fSub(candidates[j].scale.max, intTypeInfo.max)),
                 fAbs(fSub(intTypeInfo.min, candidates[j].scale.min))),
            10^underPointLength(candidates[j].step))

ArithmeticLabels(t) ==
    /\ Len(t.labels) >= 1
    /\ IsFin(t.scale.min) /\ IsFin(t.scale.max)
    /\ t.labels[1] = t.scale.min
    /\ t.labels[Len(t.labels)] = t.scale.max
    /\ \A i \in 1..(Len(t.labels) - 1) : fEq(fSub(t.labels[i + 1], t.labels[i]), t.step)

\* C15: the labels of every candidate (after tightening and step-halving)
\* are the arithmetic sequence from scale.min to scale.max inclusive at
\* spacing step.
C15_LabelsAreArithmetic ==
    (ValueAxis /\ ValidInput)
    => /\ \A i \in 1..Len(candidates) : ArithmeticLabels(candidates[i])
       /\ Returned => ArithmeticLabels(tickInfo)

\* Supporting C15: the property does hold when the data is not a single value
\* and every tick count is at least 2.
ArithmeticLabelsProperRange ==
    (ValueAxis /\ fLt(userMin, userMax) /\ \A i \in 1..Len(tickCounts) : tickCounts[i] >= 2)
    => /\ \A i \in 1..Len(candidates) : ArithmeticLabels(candidates[i])
       /\ Returned => ArithmeticLabels(tickInfo)

\* The bounds of t are strictly outside the data [lo, hi] where C16 says so.
OffTheExtremes(t, lo, hi) ==
    /\ isUndefined(options.max) => fGt(t.scale.max, hi)
    /\ (isUndefined(options.min) /\ (chartType = "line" \/ fGt(lo, Fin(0))))
       => fLt(t.scale.min, lo)

\* C16: without options.max the final scale.max of every candidate is
\* strictly greater than max(values); without options.min, for a line chart
\* or min(values) > 0, the final scale.min is strictly less than min(values).
\* The candidates are compared with the data as _getTickInfoCandidates is
\* given it, the returned tickInfo with the values themselves.
C16_NoTickOnExtremes ==
    (ValueAxis /\ ValidInput)
    => /\ \A i \in 1..Len(candidates) :
            OffTheExtremes(candidates[i], intTypeInfo.min, intTypeInfo.max)
       /\ Returned => OffTheExtremes(tickInfo, userMin, userMax)

\* Supporting C16: the property does hold when the data is not a single value
\* and every tick count is at least 2.
OffTheExtremesProperRange ==
    (ValueAxis /\ fLt(userMin, userMax) /\ \A i \in 1..Len(tickCounts) : tickCounts[i] >= 2)
    => /\ \A i \in 1..Len(candidates) :
            OffTheExtremes(candidates[i], intTypeInfo.min, intTypeInfo.max)
       /\ Returned => OffTheExtremes(tickInfo, userMin, userMax)

====
